---- MODULE Spec2Model ----
(***************************************************************************)
(* The Ansible conda module   (src/conda.py): command construction,       *)
(* parsing of conda's standard output, classification of a command's      *)
(* outcome, and the reconciliation policy of main().                       *)
(*                                                                         *)
(* Text is modelled structurally.  A command token is a tuple of string    *)
(* pieces (<<"numpy", "=", 1>> is the token numpy=1).  A whitespace        *)
(* delimited parameter string is a sequence of atoms in which " " is a     *)
(* run of white space and every other atom is a word.  Standard output is  *)
(* a sequence of lines and a line is a sequence of JSON tokens; white      *)
(* space inside a line is insignificant to json.loads and is left out, a   *)
(* blank line is the empty sequence.                                       *)
(***************************************************************************)
EXTENDS Integers, Sequences, FiniteSets, TLC

\* ------------------------------------------------------------------ bounds
NumVersions == 2    \* package versions are 1..NumVersions
MaxLines    == 4    \* lines of a standard output handed to the parser
MaxWords    == 2    \* words of a channels / extra_args string

\* version defaults to None; None is written 0, real versions are >= 1
NoVersion == 0

\* ------------------------------------------------------------- JSON text
LBRACE == <<"{">>
RBRACE == <<"}">>
COMMA  == <<",">>
NUL    == <<"\\x00">>       \* the character \x00: not white space, not JSON
NOISE  == <<"fail">>        \* text that is not JSON
NUMBER == <<"17685">>       \* a JSON value that is not an object

Member(k, v) == <<k, ":", v>>      \* "k": v  with v an atomic JSON value

IsMember(tok) == Len(tok) = 3

\* Values of the keys the module looks at.
AlreadyInstalledMessage == "All requested packages already installed."
PackageNotFoundName     == "PackageNotFoundError"
EmptyActions            == "{}"
SomeActions             == "{LINK: [pkg]}"

\* len() of a decoded value
PyLen(v) == IF v = EmptyActions THEN 0 ELSE 1

EmptyDict == [k \in {} |-> ""]

RECURSIVE DictOf(_)
\* the dict of a sequence of members; a repeated key keeps its last value
DictOf(members) ==
  IF members = <<>> THEN EmptyDict
  ELSE LET n    == Len(members)
           m    == members[n]
           rest == DictOf(SubSeq(members, 1, n - 1))
       IN [k \in (DOMAIN rest) \cup {m[1]} |-> IF k = m[1] THEN m[3] ELSE rest[k]]

\* the tokens between the braces are member (, member)*
IsMemberList(inner) ==
  /\ Len(inner) % 2 = 1
  /\ \A i \in 1..Len(inner) :
        IF i % 2 = 1 THEN IsMember(inner[i]) ELSE inner[i] = COMMA

MembersOf(inner) == [i \in 1..((Len(inner) + 1) \div 2) |-> inner[2 * i - 1]]

ValueError == [kind |-> "ValueError", val |-> EmptyDict]
None       == [kind |-> "None", val |-> EmptyDict]
TypeError  == [kind |-> "TypeError", val |-> EmptyDict]
Scalar     == [kind |-> "scalar", val |-> EmptyDict]
Dict(d)    == [kind |-> "dict", val |-> d]

\* json.loads on the text of a sequence of tokens
json_loads(text) ==
  IF text = <<NUMBER>> THEN Scalar
  ELSE IF Len(text) >= 2 /\ text[1] = LBRACE /\ text[Len(text)] = RBRACE
  THEN LET inner == SubSeq(text, 2, Len(text) - 1)
       IN IF inner = <<>> THEN Dict(EmptyDict)
          ELSE IF IsMemberList(inner) THEN Dict(DictOf(MembersOf(inner)))
          ELSE ValueError
  ELSE ValueError

RECURSIVE Join(_)
\* "".join(lines)
Join(lines) == IF lines = <<>> THEN <<>> ELSE Head(lines) \o Join(Tail(lines))

RECURSIVE LStrip(_)
LStrip(lines) ==
  IF lines # <<>> /\ Head(lines) = <<>> THEN LStrip(Tail(lines)) ELSE lines

RECURSIVE RStrip(_)
RStrip(lines) ==
  IF lines # <<>> /\ lines[Len(lines)] = <<>>
  THEN RStrip(SubSeq(lines, 1, Len(lines) - 1)) ELSE lines

\* stdout.strip().split("\n"): the empty string splits into one empty line
StripSplit(stdout) ==
  LET s == RStrip(LStrip(stdout)) IN IF s = <<>> THEN << <<>> >> ELSE s

HasMarker(d) == "progress" \in DOMAIN d \/ "maxval" \in DOMAIN d

RECURSIVE ScanLines(_)
\* the while loop of parse_conda_stdout
ScanLines(split_lines) ==
  IF Len(split_lines) = 0 THEN [ret |-> FALSE, out |-> None, lines |-> <<>>]
  ELSE LET line         == Head(split_lines)
           line_content == json_loads(line)
       IN IF line_content.kind = "ValueError"
          THEN [ret |-> FALSE, out |-> None, lines |-> split_lines]
          ELSE IF line_content.kind = "scalar"
          THEN [ret |-> TRUE, out |-> TypeError, lines |-> <<>>]
          ELSE IF ~HasMarker(line_content.val)
          THEN [ret |-> TRUE, out |-> line_content, lines |-> <<>>]
          ELSE ScanLines(Tail(split_lines))

parse_conda_stdout(stdout) ==
  LET scan == ScanLines(StripSplit(stdout))
  IN IF scan.ret THEN scan.out
     ELSE LET whole == json_loads(Join(scan.lines))
          IN IF whole.kind = "ValueError" THEN None ELSE whole

\* ------------------------------------------------------- command builder
SPACE == " "

\* s.strip().split(): the words of s
Split(s) ==
  LET words == SelectSeq(s, LAMBDA a : a # SPACE)
  IN [i \in 1..Len(words) |-> <<words[i]>>]

RECURSIVE DashC(_)
DashC(channels) ==
  IF channels = <<>> THEN <<>>
  ELSE << <<"--channel">>, Head(channels) >> \o DashC(Tail(channels))

\* command[:2] and command[2:]
Take2(command) == SubSeq(command, 1, IF Len(command) < 2 THEN Len(command) ELSE 2)
Drop2(command) == SubSeq(command, 3, Len(command))

add_channels_to_command(command, channels) ==
  IF Len(channels) > 0
  THEN Take2(command) \o DashC(Split(channels)) \o Drop2(command)
  ELSE command

add_extras_to_command(command, extras) ==
  IF Len(extras) > 0
  THEN Take2(command) \o Split(extras) \o Drop2(command)
  ELSE command

\* FinalCommand with the two injections in the other order
FinalCommand_ExtrasFirst(command, channels, extra_args) ==
  add_channels_to_command(add_extras_to_command(command, extra_args), channels)

\* the two lines of _run_conda_command that finish the command
FinalCommand(command, channels, extra_args) ==
  add_extras_to_command(add_channels_to_command(command, channels), extra_args)

get_install_target(name, version) ==
  IF version # NoVersion THEN <<name, "=", version>> ELSE <<name>>

\* QueryCommand without the --dry-run flag
QueryCommand_NoDryRun(conda, name, version) ==
  <<conda, <<"install">>, <<"--json">>, get_install_target(name, version)>>

QueryCommand(conda, name, version) ==
  <<conda, <<"install">>, <<"--json">>, <<"--dry-run">>, get_install_target(name, version)>>

\* command.insert(-1, x): x goes in front of the last token
InsertBeforeLast(command, x) ==
  SubSeq(command, 1, Len(command) - 1) \o <<x>> \o <<command[Len(command)]>>

InstallCommand(conda, name, version, check_mode) ==
  LET command == <<conda, <<"install">>, <<"--yes">>, <<"--json">>, get_install_target(name, version)>>
  IN IF check_mode THEN InsertBeforeLast(command, <<"--dry-run">>) ELSE command

\* UninstallCommand that does not look at check_mode
UninstallCommand_NoDryRun(conda, name, check_mode) ==
  <<conda, <<"remove">>, <<"--yes">>, <<"--json">>, <<name>>>>

UninstallCommand(conda, name, check_mode) ==
  LET command == <<conda, <<"remove">>, <<"--yes">>, <<"--json">>, <<name>>>>
  IN IF check_mode THEN InsertBeforeLast(command, <<"--dry-run">>) ELSE command

\* ------------------------------------------------------ the conda tool
\* What module.run_command meets: an environment holding installed packages
\* and channels offering packages.  The module never sees this state, only
\* the exit code and the output of each command.
Names    == {"numpy", "ghost"}
Repo     == {"numpy"}              \* the packages the channels offer
Versions == 1..NumVersions

Range(f) == {f[i] : i \in DOMAIN f}

IsDryRun(command) == <<"--dry-run">> \in Range(command)
SubCommand(command) == IF Len(command) >= 2 THEN command[2] ELSE <<>>
TargetOf(command) == command[Len(command)]
TargetName(command) == TargetOf(command)[1]
TargetVersion(command) ==
  IF Len(TargetOf(command)) = 3 THEN TargetOf(command)[3] ELSE NoVersion

BodyInstalled == <<Member("message", AlreadyInstalledMessage), Member("success", "true")>>
BodyActions   == <<Member("actions", SomeActions), Member("success", "true")>>
BodyNoActions == <<Member("actions", EmptyActions), Member("success", "true")>>
BodyNotFound  == <<Member("exception_name", PackageNotFoundName), Member("message", "Package missing")>>
BodyError     == <<Member("exception_name", "CondaHTTPError"), Member("message", "HTTP 000")>>
BodyEmpty     == <<>>

Bodies == {BodyInstalled, BodyActions, BodyNoActions, BodyNotFound, BodyError, BodyEmpty}

Satisfies(inst, name, version) ==
  /\ name \in DOMAIN inst
  /\ inst[name] # NoVersion
  /\ (version = NoVersion \/ inst[name] = version)

\* the answer conda gives to a command when it reports the system as it is
Answer(command, inst) ==
  LET name    == TargetName(command)
      version == TargetVersion(command)
  IN IF SubCommand(command) = <<"install">>
     THEN IF name \notin Repo \/ version \notin (Versions \cup {NoVersion})
          THEN [rc |-> 1, body |-> BodyNotFound]
          ELSE IF Satisfies(inst, name, version)
          THEN [rc |-> 0, body |-> BodyInstalled]
          ELSE [rc |-> 0, body |-> BodyActions]
     ELSE IF SubCommand(command) = <<"remove">>
     THEN IF name \notin DOMAIN inst \/ inst[name] = NoVersion
          THEN [rc |-> 1, body |-> BodyNotFound]
          ELSE [rc |-> 0, body |-> BodyActions]
     ELSE [rc |-> 1, body |-> BodyError]

\* the installed packages after conda carried out a command
Effect(command, inst) ==
  LET name    == TargetName(command)
      version == TargetVersion(command)
      a       == Answer(command, inst)
  IN IF IsDryRun(command) \/ a.rc # 0 \/ a.body # BodyActions THEN inst
     ELSE IF SubCommand(command) = <<"install">>
     THEN [inst EXCEPT ![name] = IF version = NoVersion THEN NumVersions ELSE version]
     ELSE [inst EXCEPT ![name] = NoVersion]

\* How conda writes a result object to standard output.
ProgressStart == <<LBRACE, Member("maxval", "17685"), COMMA, Member("progress", "0"), RBRACE>>
ProgressEnd   == <<LBRACE, Member("maxval", "17685"), COMMA, Member("progress", "17685"), RBRACE>>

RECURSIVE Commas(_)
Commas(body) ==
  IF Len(body) <= 1 THEN body
  ELSE <<Head(body), COMMA>> \o Commas(Tail(body))

Compact(body) == << <<LBRACE>> \o Commas(body) \o <<RBRACE>> >>

\* one member per line, as json.dumps(indent=2) writes it
Pretty(body) ==
  << <<LBRACE>> >>
  \o [i \in 1..Len(body) |-> IF i < Len(body) THEN <<body[i], COMMA>> ELSE <<body[i]>>]
  \o << <<RBRACE>> >>

Renderings == {"compact", "pretty", "progress", "nul_progress"}

Render(body, rendering) ==
  CASE rendering = "compact"      -> Compact(body)
    [] rendering = "pretty"       -> << <<>> >> \o Pretty(body) \o << <<>> >>
    [] rendering = "progress"     -> <<ProgressStart, ProgressEnd>> \o Compact(body)
    [] rendering = "nul_progress" -> <<ProgressStart, <<NUL>> \o ProgressEnd, <<NUL>>>> \o Pretty(body)
    [] rendering = "noise"        -> << <<NOISE>> >>
    [] rendering = "number"       -> << <<NUMBER>> >>
    [] rendering = "late_number"  -> <<ProgressStart, <<>>, <<NUMBER>>>>

Stderrs == {"", "WARNING"}

\* everything run_command can return: (rc, stdout, stderr)
Replies ==
  [rc : {0, 1}, body : Bodies, rendering : Renderings, stderr : Stderrs]
  \cup [rc : {0, 1}, body : {BodyEmpty}, rendering : {"noise", "number", "late_number"}, stderr : Stderrs]

\* the reply reports the system as it is
Faithful(reply, command, inst) ==
  /\ reply.rendering \in Renderings
  /\ [rc |-> reply.rc, body |-> reply.body] = Answer(command, inst)

\* --------------------------------------------------------------- state
VARIABLES
  installed,      \* the system: installed version of each package (NoVersion: none)
  pc,             \* where main() is: "idle", "query", "install", "uninstall", "done"
  params,         \* module.params and module.check_mode of the invocation
  conda,          \* the executable _find_conda returned
  calls,          \* the commands handed to module.run_command, in order
  outcomes,       \* what each of them came back as
  result,         \* how the invocation ended
  faithful,       \* conda reported the system as it is, all through the invocation
  startInstalled, \* installed, when the invocation began
  repeat,         \* the invocation has the inputs of the one before it
  prev,           \* how the one before it ended: "none" (there was none), "failed",
                  \* "unfaithful" (conda misreported), "unchanged", "changed"
  stdout,         \* parser on its own: the standard output
  parsed,         \* parser on its own: what parse_conda_stdout returned
  command,        \* builder on its own: base command, channels, extra_args
  built           \* builder on its own: the command handed to run_command

vars == <<installed, pc, params, conda, calls, outcomes, result, faithful,
          startInstalled, repeat, prev, stdout, parsed, command, built>>

mainVars  == <<installed, pc, params, conda, calls, outcomes, result, faithful,
               startInstalled, repeat, prev>>
parseVars == <<stdout, parsed>>
buildVars == <<command, built>>

\* ----------------------------------------------------------- parameters
States == {"present", "absent", "latest"}

ChannelStrings == {<<>>, <<"conda-forge">>}
ExtraStrings   == {<<>>, <<"--offline">>}

Params ==
  [name : Names, version : Versions \cup {NoVersion}, state : States,
   channels : ChannelStrings, extra_args : ExtraStrings, check_mode : BOOLEAN]

NotFound  == <<>>
OnPath    == <<"/usr/bin/conda">>
Explicit  == <<"/opt/conda/bin/conda">>
Executables == {NotFound, Explicit}     \* the executable parameter; NotFound: not given

\* found is what the lookup answered: find_executable('conda') when no
\* executable is given, os.path.isfile(executable) when one is
_find_conda(executable, found) ==
  IF executable = NotFound
  THEN IF found THEN OnPath ELSE NotFound
  ELSE IF found THEN executable ELSE NotFound

\* ----------------------------------------------------- terminal results
Running == [how |-> "none", changed |-> FALSE, what |-> "", output |-> None, error |-> ""]

exit_json(changed, output, error) ==
  [how |-> "exit_json", changed |-> changed, what |-> "", output |-> output, error |-> error]

fail_json(msg) ==
  [how |-> "fail_json", changed |-> FALSE, what |-> msg, output |-> None, error |-> ""]

Raised(exception) ==
  [how |-> "exception", changed |-> FALSE, what |-> exception, output |-> None, error |-> ""]

NoExecutableMsg == "could not find conda executable"
InvalidRequestMsg == "version must not be set if state == latest"

\* -------------------------------------------------------- command runner
Has(output, key) == output.kind = "dict" /\ key \in DOMAIN output.val

\* RunResult that does not look at the exit code
RunResult_IgnoresRc(rc, out) ==
  LET parsed_stdout == parse_conda_stdout(out)
  IN IF parsed_stdout.kind = "TypeError"
     THEN [class |-> "TypeError", output |-> None]
     ELSE IF parsed_stdout.kind = "None"
     THEN [class |-> "CondaCommandError", output |-> parsed_stdout]
     ELSE [class |-> "Success", output |-> parsed_stdout]

\* _run_conda_command wrapped by _run_conda_package_command:
\* the class of the outcome and the parsed output
RunResult(rc, out) ==
  LET parsed_stdout == parse_conda_stdout(out)
  IN IF parsed_stdout.kind = "TypeError"
     THEN [class |-> "TypeError", output |-> None]
     ELSE IF rc # 0 \/ parsed_stdout.kind = "None"
     THEN IF parsed_stdout.kind = "scalar"       \* 'message' in a number
          THEN [class |-> "TypeError", output |-> None]
          ELSE IF
             /\ parsed_stdout.kind # "None"
             /\ Has(parsed_stdout, "exception_name")
             /\ parsed_stdout.val["exception_name"] = PackageNotFoundName
          THEN [class |-> "CondaPackageNotFoundError", output |-> parsed_stdout]
          ELSE [class |-> "CondaCommandError", output |-> parsed_stdout]
     ELSE [class |-> "Success", output |-> parsed_stdout]

\* CheckInstalled that takes an empty actions value for planned actions
CheckInstalled_AnyActions(output) ==
  IF output.kind = "scalar" THEN "TypeError"
  ELSE IF Has(output, "message") /\ output.val["message"] = AlreadyInstalledMessage
  THEN "True"
  ELSE IF Has(output, "actions") /\ PyLen(output.val["actions"]) >= 0
  THEN "False"
  ELSE "CondaUnexpectedOutputError"

\* the decision of _check_package_installed on the output of the query
CheckInstalled(output) ==
  IF output.kind = "scalar" THEN "TypeError"     \* 'message' in a number
  ELSE IF Has(output, "message") /\ output.val["message"] = AlreadyInstalledMessage
  THEN "True"
  ELSE IF Has(output, "actions") /\ PyLen(output.val["actions"]) > 0
  THEN "False"
  ELSE "CondaUnexpectedOutputError"

\* the conditions of main(), each with a slip
ConflictingRequest_Inverted(state, version) == state = "latest" /\ version = NoVersion
NeedsInstall_Always(correct_version_installed, state) == state # "absent"
NeedsUninstall_Never(state) == FALSE
Swallowed_CommandError(class) == class = "CondaCommandError"

\* the conditions of main()
ConflictingRequest(state, version) == state = "latest" /\ version # NoVersion
NeedsInstall(correct_version_installed, state) ==
  ~correct_version_installed /\ state # "absent"
NeedsUninstall(state) == state = "absent"
\* except CondaPackageNotFoundError around _uninstall_package
Swallowed(class) == class = "CondaPackageNotFoundError"

\* what a returned command is remembered as
Outcome(run, reply, check) ==
  [rc |-> reply.rc, class |-> run.class, output |-> run.output,
   stderr |-> reply.stderr, check |-> check]

\* --------------------------------------------------------------- actions
NoParams ==
  [name |-> "numpy", version |-> NoVersion, state |-> "present",
   channels |-> <<>>, extra_args |-> <<>>, check_mode |-> FALSE]

NotRun == [kind |-> "unset", val |-> EmptyDict]
NoCommand == [base |-> <<>>, channels |-> <<>>, extras |-> <<>>]

Systems == {inst \in [Names -> Versions \cup {NoVersion}] :
              \A n \in Names \ Repo : inst[n] = NoVersion}

InitMain ==
  /\ pc = "idle"
  /\ params = NoParams
  /\ conda = NotFound
  /\ calls = <<>>
  /\ outcomes = <<>>
  /\ result = Running
  /\ faithful = TRUE
  /\ startInstalled = installed
  /\ repeat = FALSE
  /\ prev = "none"

Init ==
  /\ installed \in Systems
  /\ InitMain
  /\ stdout = <<>>
  /\ parsed = NotRun
  /\ command = NoCommand
  /\ built = <<>>

\* main() up to its first call of run_command
Start(p, executable, found) ==
  /\ params' = p
  /\ conda' = _find_conda(executable, found)
  /\ outcomes' = <<>>
  /\ faithful' = TRUE
  /\ startInstalled' = installed
  /\ repeat' = (pc = "done" /\ p = params)
  /\ prev' = IF pc # "done" THEN "none"
             ELSE IF result.how # "exit_json" THEN "failed"
             ELSE IF ~faithful THEN "unfaithful"
             ELSE IF result.changed THEN "changed" ELSE "unchanged"
  /\ IF conda' = NotFound
     THEN /\ result' = fail_json(NoExecutableMsg)
          /\ calls' = <<>>
          /\ pc' = "done"
     ELSE IF ConflictingRequest(p.state, p.version)
     THEN /\ result' = fail_json(InvalidRequestMsg)
          /\ calls' = <<>>
          /\ pc' = "done"
     ELSE /\ result' = Running
          /\ calls' = <<FinalCommand(QueryCommand(conda', p.name, p.version),
                                     p.channels, p.extra_args)>>
          /\ pc' = "query"
  /\ UNCHANGED <<installed, parseVars, buildVars>>

\* The module is run on a system for the first time.  Every system is an
\* initial state, so a run with other inputs than the run before it is a
\* first run on the system the earlier runs left.
Invoke(p, executable, found) ==
  /\ pc = "idle"
  /\ Start(p, executable, found)

\* The module is run again with the inputs of the run before it.
Reinvoke(executable, found) ==
  /\ pc = "done"
  /\ Start(params, executable, found)

\* what run_command does to the system and to the record of conda's faithfulness
ToolStep(reply) ==
  LET cmd == calls[Len(calls)]
  IN /\ installed' = IF Faithful(reply, cmd, installed)
                     THEN Effect(cmd, installed) ELSE installed
     /\ faithful' = (faithful /\ Faithful(reply, cmd, installed))

\* the dry-run query returns; main() goes on to its next call or ends
QueryReturns(reply) ==
  /\ pc = "query"
  /\ ToolStep(reply)
  /\ LET run == RunResult(reply.rc, Render(reply.body, reply.rendering))
         chk == CheckInstalled(run.output)
     IN IF run.class # "Success"
        THEN /\ outcomes' = Append(outcomes, Outcome(run, reply, "-"))
             /\ result' = Raised(run.class)
             /\ calls' = calls
             /\ pc' = "done"
        ELSE /\ outcomes' = Append(outcomes, Outcome(run, reply, chk))
             /\ IF chk \in {"CondaUnexpectedOutputError", "TypeError"}
                THEN /\ result' = Raised(chk)
                     /\ calls' = calls
                     /\ pc' = "done"
                ELSE IF NeedsInstall(chk = "True", params.state)
                THEN /\ calls' = Append(calls, FinalCommand(
                                    InstallCommand(conda, params.name, params.version, params.check_mode),
                                    params.channels, params.extra_args))
                     /\ result' = Running
                     /\ pc' = "install"
                ELSE IF NeedsUninstall(params.state)
                THEN /\ calls' = Append(calls, FinalCommand(
                                    UninstallCommand(conda, params.name, params.check_mode),
                                    params.channels, params.extra_args))
                     /\ result' = Running
                     /\ pc' = "uninstall"
                ELSE /\ calls' = calls
                     /\ result' = exit_json(FALSE, None, "")
                     /\ pc' = "done"
  /\ UNCHANGED <<params, conda, startInstalled, repeat, prev, parseVars, buildVars>>

\* the install command of _install_package returns
InstallReturns(reply) ==
  /\ pc = "install"
  /\ ToolStep(reply)
  /\ LET run == RunResult(reply.rc, Render(reply.body, reply.rendering))
     IN /\ outcomes' = Append(outcomes, Outcome(run, reply, "-"))
        /\ result' = IF run.class = "Success"
                     THEN exit_json(TRUE, run.output, reply.stderr)
                     ELSE Raised(run.class)
  /\ pc' = "done"
  /\ UNCHANGED <<params, conda, calls, startInstalled, repeat, prev, parseVars, buildVars>>

\* the remove command of _uninstall_package returns, inside main()'s try
UninstallReturns(reply) ==
  /\ pc = "uninstall"
  /\ ToolStep(reply)
  /\ LET run == RunResult(reply.rc, Render(reply.body, reply.rendering))
     IN /\ outcomes' = Append(outcomes, Outcome(run, reply, "-"))
        /\ result' = IF run.class = "Success"
                     THEN exit_json(TRUE, run.output, reply.stderr)
                     ELSE IF Swallowed(run.class)
                     THEN exit_json(FALSE, None, "")
                     ELSE Raised(run.class)
  /\ pc' = "done"
  /\ UNCHANGED <<params, conda, calls, startInstalled, repeat, prev, parseVars, buildVars>>

Next ==
  \/ \E p \in Params, e \in Executables, found \in BOOLEAN : Invoke(p, e, found)
  \/ \E e \in Executables, found \in BOOLEAN : Reinvoke(e, found)
  \/ \E reply \in Replies : QueryReturns(reply)
  \/ \E reply \in Replies : InstallReturns(reply)
  \/ \E reply \in Replies : UninstallReturns(reply)

Spec == Init /\ [][Next]_vars

\* ------------------------------------------------- the parser on its own
\* Standard outputs: up to MaxLines leading lines, then what conda writes
\* last.  The leading lines are progress reports, with and without the
\* \x00 conda 4.3.25 puts after each report's line break, and other text.
LeadLines == {ProgressStart, ProgressEnd, <<NUL>> \o ProgressEnd, <<NUL>>, <<>>, <<NOISE>>}

Leads == UNION {[1..n -> LeadLines] : n \in 0..MaxLines}

Tails ==
  {Compact(b) : b \in Bodies} \cup {Pretty(b) : b \in Bodies}
  \cup {<< <<>> >> \o Pretty(b) \o << <<>> >> : b \in Bodies}
  \cup {<< <<NOISE>> >>, << <<NUMBER>> >>, <<>>}

Stdouts == {lead \o tail : lead \in Leads, tail \in Tails}

InitParse ==
  /\ installed = [n \in Names |-> NoVersion]
  /\ InitMain
  /\ stdout \in Stdouts
  /\ parsed = NotRun
  /\ command = NoCommand
  /\ built = <<>>

Parse ==
  /\ parsed = NotRun
  /\ parsed' = parse_conda_stdout(stdout)
  /\ UNCHANGED <<mainVars, stdout, buildVars>>

NextParse == Parse

SpecParse == InitParse /\ [][NextParse]_vars

\* ------------------------------------------------ the builder on its own
ChannelWords == {"conda-forge", "bioconda"}
ExtraWords   == {"--offline", "--quiet"}

\* the strings of at most MaxWords words of W, single spaces between the
\* words, with and without white space around them
WordSeqs(W) == UNION {[1..n -> W] : n \in 0..MaxWords}

RECURSIVE Spaced(_)
Spaced(ws) ==
  IF Len(ws) <= 1 THEN ws ELSE <<Head(ws), SPACE>> \o Spaced(Tail(ws))

ParamStrings(W) ==
  {Spaced(ws) : ws \in WordSeqs(W)}
  \cup {<<SPACE>> \o Spaced(ws) \o <<SPACE>> : ws \in WordSeqs(W)}

BaseCommands ==
  {QueryCommand(OnPath, n, v) : n \in Names, v \in Versions \cup {NoVersion}}
  \cup {InstallCommand(OnPath, n, v, c) : n \in Names, v \in Versions \cup {NoVersion}, c \in BOOLEAN}
  \cup {UninstallCommand(OnPath, n, c) : n \in Names, c \in BOOLEAN}

InitBuild ==
  /\ installed = [n \in Names |-> NoVersion]
  /\ InitMain
  /\ stdout = <<>>
  /\ parsed = NotRun
  /\ command \in [base : BaseCommands, channels : ParamStrings(ChannelWords),
                  extras : ParamStrings(ExtraWords)]
  /\ built = <<>>

Build ==
  /\ built = <<>>
  /\ built' = FinalCommand(command.base, command.channels, command.extras)
  /\ UNCHANGED <<mainVars, parseVars, command>>

NextBuild == Build

SpecBuild == InitBuild /\ [][NextBuild]_vars

\* ---------------------------------------------------------- properties
Done == pc = "done"

IsQueryCommand(c) ==
  /\ <<"install">> \in Range(c)
  /\ <<"--dry-run">> \in Range(c)
  /\ <<"--yes">> \notin Range(c)
IsInstallCommand(c) == <<"install">> \in Range(c) /\ <<"--yes">> \in Range(c)
IsRemoveCommand(c)  == <<"remove">> \in Range(c)

ChangedTrue  == result.how = "exit_json" /\ result.changed
ChangedFalse == result.how = "exit_json" /\ ~result.changed
Failed       == result.how \in {"fail_json", "exception"}

\* the executable was found and the request is not the conflicting one
Admitted == conda # NotFound /\ ~(params.state = "latest" /\ params.version # NoVersion)

\* the system was in the desired state when the invocation began
WasDesired ==
  IF params.state = "absent" THEN startInstalled[params.name] = NoVersion
  ELSE /\ startInstalled[params.name] # NoVersion
       /\ params.version \in {NoVersion, startInstalled[params.name]}

\* the invocation failed on a command whose output could not be parsed
Unparsed ==
  /\ result = Raised("CondaCommandError")
  /\ outcomes # <<>>
  /\ outcomes[Len(outcomes)].output = None

\* C1 as stated: the second of two runs with the same inputs, outside check
\* mode, with the executable found and conda reporting the system as it is,
\* ends with changed=false.
C1_Idempotent ==
  (Done /\ repeat /\ ~params.check_mode /\ conda # NotFound /\ faithful)
    => ChangedFalse

\* C1 amended: when the first run ended in exit_json and conda reported the
\* system as it is in both runs, the second run never reports changed=true
\* and leaves the system alone; it ends with changed=false (state absent:
\* through the remove command coming back PackageNotFound; otherwise
\* after the query alone) unless the output of one of its commands cannot
\* be parsed.
C1_IdempotentAfterSuccess ==
  (Done /\ repeat /\ prev \in {"changed", "unchanged"} /\ ~params.check_mode
        /\ conda # NotFound /\ faithful)
    => /\ ~ChangedTrue
       /\ installed = startInstalled
       /\ ChangedFalse \/ Unparsed
       /\ ChangedFalse =>
            IF params.state = "absent"
            THEN /\ Len(calls) = 2
                 /\ IsRemoveCommand(calls[2])
                 /\ outcomes[2].class = "CondaPackageNotFoundError"
            ELSE Len(calls) = 1

C1_Witness ==
  /\ Done /\ repeat /\ prev = "changed" /\ ~params.check_mode /\ faithful
  /\ ChangedFalse
  /\ params.state = "present"

\* C2 as stated: on a system already in the desired state, with conda
\* reporting the system as it is and no command failing, every command
\* issued is the dry-run query and the invocation ends with changed=false.
C2_NoMutatingCommand ==
  (pc # "idle" /\ Admitted /\ faithful /\ WasDesired /\ ~Failed)
    => /\ \A i \in 1..Len(calls) : IsQueryCommand(calls[i])
       /\ Done => ChangedFalse

\* C2 amended: on a system already in the desired state, with conda
\* reporting the system as it is, the invocation never reports changed=true
\* and leaves the system alone.  For present and latest the query is the
\* only command, and the invocation ends with changed=false unless the
\* query's output cannot be parsed.  For absent the remove command is issued
\* whenever the query succeeds, and changed=false is reported when it comes
\* back PackageNotFound.
C2_DesiredStateKept ==
  (pc # "idle" /\ Admitted /\ faithful /\ WasDesired)
    => /\ ~ChangedTrue
       /\ installed = startInstalled
       /\ params.state # "absent" =>
            /\ Len(calls) = 1
            /\ Done => (ChangedFalse \/ Unparsed)
       /\ (params.state = "absent" /\ outcomes # <<>> /\ outcomes[1].class = "Success") =>
            /\ Len(calls) = 2
            /\ IsRemoveCommand(calls[2])
            /\ IsDryRun(calls[2]) = params.check_mode
       /\ (params.state = "absent" /\ Len(outcomes) = 2
             /\ outcomes[2].class = "CondaPackageNotFoundError") => ChangedFalse

C2_Witness ==
  /\ Done /\ Admitted /\ faithful /\ WasDesired
  /\ params.state = "absent"
  /\ Len(calls) = 2 /\ IsRemoveCommand(calls[2])
  /\ ChangedFalse

\* C3 as stated: state=latest with a version always ends in the
\* InvalidRequest failure, with no command issued.
C3_AlwaysInvalidRequest ==
  (pc # "idle" /\ params.state = "latest" /\ params.version # NoVersion)
    => /\ Done
       /\ result = fail_json(InvalidRequestMsg)
       /\ calls = <<>>

\* C3 amended: state=latest with a version always ends in a fail_json with
\* no command issued: the InvalidRequest failure when the conda executable
\* is found, the executable-not-found failure when it is not.
C3_InvalidRequestOnceFound ==
  (pc # "idle" /\ params.state = "latest" /\ params.version # NoVersion)
    => /\ Done
       /\ calls = <<>>
       /\ outcomes = <<>>
       /\ result = IF conda = NotFound THEN fail_json(NoExecutableMsg)
                   ELSE fail_json(InvalidRequestMsg)

C3_Witness ==
  /\ Done /\ params.state = "latest" /\ params.version # NoVersion
  /\ conda # NotFound
  /\ result = fail_json(InvalidRequestMsg)

\* C4: PackageNotFound from the remove command (state absent) ends the
\* invocation with changed=false; PackageNotFound from the query or from
\* the install command ends it in that exception, with neither changed=true
\* nor changed=false reported.
C4_NotFoundOnlySwallowedOnRemove ==
  Done =>
    /\ (Len(outcomes) = 2 /\ outcomes[2].class = "CondaPackageNotFoundError"
          /\ IsRemoveCommand(calls[2]))
         => (params.state = "absent" /\ ChangedFalse)
    /\ (Len(outcomes) = 2 /\ outcomes[2].class = "CondaPackageNotFoundError"
          /\ IsInstallCommand(calls[2]))
         => result = Raised("CondaPackageNotFoundError")
    /\ (Len(outcomes) >= 1 /\ outcomes[1].class = "CondaPackageNotFoundError")
         => (Len(calls) = 1 /\ result = Raised("CondaPackageNotFoundError"))

C4_Witness ==
  /\ Done /\ params.state = "absent"
  /\ Len(outcomes) = 2 /\ outcomes[2].class = "CondaPackageNotFoundError"
  /\ ChangedFalse

\* C5: the install and remove commands carry --dry-run exactly in check
\* mode, and a check-mode invocation leaves the installed packages as they
\* were.
C5_DryRunInCheckMode ==
  /\ \A i \in 2..Len(calls) : IsDryRun(calls[i]) = params.check_mode
  /\ (pc # "idle" /\ params.check_mode) => installed = startInstalled

C5_Witness ==
  /\ Done /\ params.check_mode /\ faithful
  /\ Len(calls) = 2 /\ IsDryRun(calls[2])
  /\ ChangedTrue
  /\ installed = startInstalled

\* the install or remove command returned success
MutationSucceeded ==
  /\ Len(outcomes) = 2
  /\ outcomes[2].rc = 0
  /\ outcomes[2].output # None

OffRemovalPath == ~(Len(calls) = 2 /\ Len(outcomes) = 2 /\ IsRemoveCommand(calls[2]))

OutcomeRule(messages, exceptions) ==
  Done =>
    /\ result.how \in {"exit_json", "fail_json", "exception"}
    /\ result.how = "fail_json" => result.what \in messages
    /\ result.how = "exception" =>
         /\ result.what \in exceptions
         /\ result.what = "CondaPackageNotFoundError" => OffRemovalPath
    /\ ChangedTrue <=> MutationSucceeded
    /\ ChangedTrue => /\ result.output = outcomes[2].output
                      /\ result.error = outcomes[2].stderr
    /\ ChangedFalse => ~MutationSucceeded

\* C7 as stated: an invocation ends in changed=false, in changed=true with
\* the parsed output and stderr of the command, or in one of the failures
\* conflicting input, ToolError, PackageNotFound off the removal path,
\* UnexpectedOutput; changed=true exactly when the install or remove command
\* returned success.
C7_ThreeOutcomes ==
  OutcomeRule({InvalidRequestMsg},
              {"CondaCommandError", "CondaPackageNotFoundError", "CondaUnexpectedOutputError"})

\* C7 amended: the failures also include the conda executable not being
\* found and the TypeError raised when a line of conda's output is a JSON
\* value that is not an object; the rest as stated.
C7_ThreeOutcomesAllFailures ==
  OutcomeRule({InvalidRequestMsg, NoExecutableMsg},
              {"CondaCommandError", "CondaPackageNotFoundError", "CondaUnexpectedOutputError",
               "TypeError"})

C7_Witness ==
  /\ Done /\ ChangedTrue /\ MutationSucceeded
  /\ result.error = "WARNING"
  /\ result.output = Dict(DictOf(BodyActions))

\* C9: at most two commands, one at a time; the first is the dry-run
\* query, the second is issued after the query returned and is an install
\* or a remove, never the query again.
C9_AtMostTwoCalls ==
  /\ Len(calls) <= 2
  /\ Len(outcomes) <= Len(calls)
  /\ Len(calls) - Len(outcomes) <= 1
  /\ Done => Len(outcomes) = Len(calls)
  /\ Len(calls) >= 1 => IsQueryCommand(calls[1])
  /\ Len(calls) = 2 =>
       /\ Len(outcomes) >= 1
       /\ calls[2] # calls[1]
       /\ ~IsQueryCommand(calls[2])
       /\ IsInstallCommand(calls[2]) \/ IsRemoveCommand(calls[2])
       /\ ~(IsInstallCommand(calls[2]) /\ IsRemoveCommand(calls[2]))

C9_Witness ==
  /\ Done /\ Len(calls) = 2 /\ Len(outcomes) = 2
  /\ IsInstallCommand(calls[2])
  /\ params.check_mode

RECURSIVE StripNul(_)
StripNul(line) ==
  IF line # <<>> /\ Head(line) = NUL THEN StripNul(Tail(line))
  ELSE IF line # <<>> /\ line[Len(line)] = NUL
  THEN StripNul(SubSeq(line, 1, Len(line) - 1))
  ELSE line

IsProgressReport(line) ==
  LET d == json_loads(StripNul(line))
  IN d.kind = "dict" /\ HasMarker(d.val)

\* the object written by the lines after the first n
TrailingObject(n) ==
  json_loads(Join([i \in 1..(Len(stdout) - n) |-> StripNul(stdout[n + i])]))

\* \x00 stands only at the head of a line that follows a progress report
NulAfterReports(n) ==
  \A i \in 1..Len(stdout) :
    NUL \in Range(stdout[i]) =>
      /\ i \in 2..(n + 1)
      /\ Head(stdout[i]) = NUL
      /\ NUL \notin Range(Tail(stdout[i]))

IsResultAfter(n) ==
  /\ NulAfterReports(n)
  /\ \A i \in 1..n : IsProgressReport(stdout[i])
  /\ TrailingObject(n).kind = "dict"
  /\ ~HasMarker(TrailingObject(n).val)

\* C6: when the standard output is N >= 0 progress reports followed by one
\* JSON object without the keys progress and maxval, on one line or over
\* several, parse_conda_stdout returns that object, whatever N is.
C6_TrailingObjectReturned ==
  parsed # NotRun =>
    \A n \in 0..Len(stdout) : IsResultAfter(n) => parsed = TrailingObject(n)

\* The same, for standard outputs without \x00.  This holds: C6 fails on
\* the \x00 alone.
HasNul == \E i \in 1..Len(stdout) : NUL \in Range(stdout[i])

ParsePlainOutput == HasNul \/ C6_TrailingObjectReturned

\* ------------------------------------------ properties of the builder
BothInjected ==
  /\ built # <<>>
  /\ Split(command.channels) # <<>>
  /\ Split(command.extras) # <<>>

\* the command is the base command with first and then second put in after
\* its second token
Injected(first, second) ==
  LET base == command.base
      n1   == Len(first)
      n2   == Len(second)
  IN /\ Len(built) = Len(base) + n1 + n2
     /\ \A i \in 1..2 : built[i] = base[i]
     /\ \A i \in 1..n1 : built[2 + i] = first[i]
     /\ \A i \in 1..n2 : built[2 + n1 + i] = second[i]
     /\ \A i \in 3..Len(base) : built[n1 + n2 + i] = base[i]

\* --channel c for each of the channels, in their order
ChannelPairs(channels) ==
  [i \in 1..(2 * Len(channels)) |->
     IF i % 2 = 1 THEN <<"--channel">> ELSE channels[i \div 2]]

\* C8 as stated: with channels and extra arguments both given, the channel
\* pairs come right after the executable and the subcommand and the extra
\* arguments after all channel pairs, then the rest of the base command.
C8_ChannelsBeforeExtras ==
  BothInjected =>
    Injected(ChannelPairs(Split(command.channels)), Split(command.extras))

\* C8 amended: channels are injected first and extras into the result, so
\* the extra arguments come right after the executable and the subcommand
\* and the channel pairs after all extra arguments, then the rest of the
\* base command.
C8_ExtrasBeforeChannels ==
  BothInjected =>
    Injected(Split(command.extras), ChannelPairs(Split(command.channels)))

C8_Witness ==
  /\ BothInjected
  /\ Len(Split(command.channels)) = 2
  /\ built[3] = <<"--offline">>
  /\ built[4] = <<"--channel">>

====
